---- MODULE Spec2Model ----
(***************************************************************************)
(* The command dispatcher of midi_ctrl: the worker thread of run_gui, in   *)
(* its two versions (src/src/gui.rs and the inline `mod gui` of            *)
(* src/src/main.rs), fed through an mpsc channel by its producers.         *)
(*                                                                         *)
(* A "write" is one call of MidiOutputConnection::send: the log `wire`     *)
(* keeps every call with the handle it went to, its bytes and whether the  *)
(* driver accepted it (ok).  `opens` keeps every call of open_output.      *)
(* `sent` and `applied` are history: every Sender::send in channel order,  *)
(* and every command the worker took from the channel.                     *)
(*                                                                         *)
(* Spec is the worker with its producers; SessionSpec adds the end of the  *)
(* session (the Sender dropped, the process exiting); EncoderSpec feeds    *)
(* the worker every channel and data value; CliSpec is interactive_loop of *)
(* src/src/main.rs; ClockSpec is send_timing_clock of src/src/gui.rs.      *)
(***************************************************************************)
EXTENDS Integers, Sequences, FiniteSets, TLC

VARIABLES
    variant,          \* which run_gui is running: "gui_rs" or "main_rs"
                      \* ("cli": interactive_loop, "clock": send_timing_clock)
    queue,            \* the mpsc channel (tx -> rx): messages not yet received
    sent,             \* history: every tx.send, in channel order
    pc,               \* the worker's position: "recv", "opened", "burst", "done",
                      \* "closed" (the channel hung up), "exited" (the process
                      \* ended); "cli", "cli_done", "cli_panic"; "clock", "clock_ok",
                      \* "clock_err"
    cur,              \* the command the worker is executing (`cmd`)
    conn,             \* `conn: Option<MidiOutputConnection>`
    current_port,     \* `_current_port: Option<usize>`
    current_channel,  \* `_current_channel: u8`
    current_bpm,      \* `current_bpm: f32` (gui.rs only)
    newc,             \* the `c` of `Ok(c)`, between open_output and `conn = Some(c)`
    burst_i,          \* iterations of `for _ in 0..6` completed
    open,             \* the output handles that exist (opened, not yet dropped)
    wire,             \* history: every conn.send call
    opens,            \* history: every open_output call
    applied,          \* history: every command received by the worker
    state_q,          \* the DeviceState channel (state_tx -> state_rx), gui.rs only
    slept,            \* milliseconds the worker has spent in thread::sleep
    senders,          \* whether a Sender of the command channel still exists
    lines,            \* history: every line interactive_loop read from stdin
    connected,        \* `connected: bool` of MidiGuiApp
    device_bpm        \* `device_bpm: f32` of MidiGuiApp (gui.rs only)

vars == <<variant, queue, sent, pc, cur, conn, current_port, current_channel,
          current_bpm, newc, burst_i, open, wire, opens, applied, state_q, slept,
          senders, lines, connected, device_bpm>>

----------------------------------------------------------------------------
(* Bounds of the model. *)

MaxCmds == 3          \* commands sent on the channel in one run
MaxFails == 1         \* conn.send calls the driver refuses in one run
MaxLines == 2         \* lines interactive_loop reads from stdin in one run
MaxTicks == 3         \* the largest `ticks` send_timing_clock is called with

(* Program constants. *)

BurstTicks == 6       \* `for _ in 0..6`
SleepMs == 8          \* `Duration::from_millis(8)`
DefaultBpm == 120     \* `let mut current_bpm: f32 = 120.0`
DefaultChannel == 1   \* `#[arg(short, long, default_value_t = 1)] channel: u8`

(* The host's MIDI output ports are 0 .. NumPorts-1 (midi_out.ports()). *)
PortIdx == {0, 1}
BadIdx == Cardinality(PortIdx)   \* the first index ports.get() has no port for
NoneIdx == -1                    \* Option<usize>::None

Producers == {1, 2}
BpmValues == {0, 60}

----------------------------------------------------------------------------
(* Commands: enum MidiCommand.  One record shape for every variant; the    *)
(* fields a variant does not carry are 0.                                  *)

Cmd(t, i, ch, x, y) == [type |-> t, idx |-> i, channel |-> ch, a |-> x, b |-> y]

Connect(i, ch) == Cmd("Connect", i, ch, 0, 0)
Disconnect == Cmd("Disconnect", 0, 0, 0, 0)
SendCC(ch, controller, value) == Cmd("SendCC", 0, ch, controller, value)
Start == Cmd("Start", 0, 0, 0, 0)
Stop == Cmd("Stop", 0, 0, 0, 0)
Continue == Cmd("Continue", 0, 0, 0, 0)
QueryDevice == Cmd("QueryDevice", 0, 0, 0, 0)
SetBpm(bpm) == Cmd("SetBpm", 0, 0, bpm, 0)
ProgramChange(ch, program) == Cmd("ProgramChange", 0, ch, program, 0)
NoteOn(ch, note, vel) == Cmd("NoteOn", 0, ch, note, vel)
NoteOff(ch, note) == Cmd("NoteOff", 0, ch, note, 0)
Quit == Cmd("Quit", 0, 0, 0, 0)

NoCmd == [id |-> 0, cmd |-> Cmd("None", 0, 0, 0, 0)]

ConnectCommands == {Connect(0, 1), Connect(1, 2), Connect(BadIdx, 1), Connect(NoneIdx, 2)}

SharedCommands ==
    ConnectCommands
    \cup {Disconnect, Start, Stop, Continue, Quit}
    \cup {SendCC(1, 74, 100)}

GuiRsCommands == SharedCommands \cup {QueryDevice} \cup {SetBpm(b) : b \in BpmValues}

MainRsCommands == SharedCommands \cup {ProgramChange(1, 5), NoteOn(1, 60, 100), NoteOff(1, 60)}

Commands(v) == IF v = "gui_rs" THEN GuiRsCommands ELSE MainRsCommands

(* What each producer sends: producer 1 is the UI thread, producer 2 any   *)
(* other holder of a clone of the Sender, which sends controller changes.  *)
Sends(p, v) == IF p = 1 THEN Commands(v) ELSE {c \in Commands(v) : c.type = "SendCC"}

----------------------------------------------------------------------------
(* The protocol encoder. *)

WrappingSub1(ch) == (ch + 255) % 256

(* Whether `channel - 1` panics: 1 or more has a predecessor in u8; 0 has  *)
(* none, and the subtraction panics in a build with overflow checks (the   *)
(* dev profile) and wraps to 255 in a build without (the release profile). *)
Sub1Panics(ch) == IF ch = 0 THEN {TRUE, FALSE} ELSE {FALSE}

(* An encoder that takes the user's channel for the wire's. *)
StatusByteRaw(base, ch) == base + (ch % 16)

(* `base | ((channel - 1) & 0x0F)`; the low four bits of base are clear. *)
StatusByte(base, ch) == base + (WrappingSub1(ch) % 16)

EncodeCC(ch, controller, value) == <<StatusByte(176, ch), controller, value>>
EncodeProgramChange(ch, program) == <<StatusByte(192, ch), program>>
EncodeNoteOn(ch, note, vel) == <<StatusByte(144, ch), note, vel>>
EncodeNoteOff(ch, note) == <<StatusByte(128, ch), note, 0>>

StartByte == 250
StopByte == 252
ContinueByte == 251
ClockByte == 248

----------------------------------------------------------------------------
(* Handles. *)

NoConn == [hid |-> 0, port |-> NoneIdx]

Handle(h, p) == [hid |-> h, port |-> p]

NextHid == Cardinality({i \in 1..Len(opens) : opens[i].hid # 0}) + 1

Failed == Cardinality({i \in 1..Len(wire) : ~wire[i].ok})

(* The outcomes conn.send can have: the driver takes the bytes or refuses. *)
SendOutcomes == IF Failed < MaxFails THEN {TRUE, FALSE} ELSE {TRUE}

(* The thread that runs the code making the conn.send calls: the thread    *)
(* spawned by run_gui runs the worker's closure, the main thread runs      *)
(* interactive_loop, and send_timing_clock runs on its caller's.           *)
Writer == CASE variant = "cli" -> "main"
            [] variant = "clock" -> "caller"
            [] OTHER -> "worker"

(* One conn.send call on handle h by the command with number id. *)
Written(h, id, bytes, ok) ==
    Append(wire, [id |-> id, hid |-> h.hid, port |-> h.port, bytes |-> bytes,
                  ok |-> ok, t |-> slept, by |-> Writer])

----------------------------------------------------------------------------
Init ==
    /\ variant \in {"gui_rs", "main_rs"}
    /\ queue = <<>>
    /\ sent = <<>>
    /\ pc = "recv"
    /\ cur = NoCmd
    /\ conn = NoConn
    /\ current_port = NoneIdx
    /\ current_channel = DefaultChannel
    /\ current_bpm = DefaultBpm
    /\ newc = NoConn
    /\ burst_i = 0
    /\ open = {}
    /\ wire = <<>>
    /\ opens = <<>>
    /\ applied = <<>>
    /\ state_q = <<>>
    /\ slept = 0
    /\ senders = TRUE
    /\ lines = <<>>
    /\ connected = FALSE
    /\ device_bpm = DefaultBpm

----------------------------------------------------------------------------
(* Producers: `let _ = self.tx.send(cmd)`.  Sends are serialised by the    *)
(* channel; a send after the receiver was dropped returns Err, which the   *)
(* caller discards, and the message is lost.                               *)

(* History only: what the worker was doing when a command was sent. *)
WorkerPhase == IF pc \in {"burst", "done"} THEN pc ELSE "run"

Enqueue(p, c) ==
    /\ senders
    /\ Len(sent) < MaxCmds
    /\ c \in Sends(p, variant)
    /\ sent' = Append(sent, [id |-> Len(sent) + 1, by |-> p, cmd |-> c,
                             phase |-> WorkerPhase])
    /\ queue' = IF pc = "done" THEN queue
                ELSE Append(queue, [id |-> Len(sent) + 1, cmd |-> c])
    /\ UNCHANGED <<variant, connected, device_bpm, senders, lines, pc, cur, conn, current_port, current_channel, current_bpm,
                   newc, burst_i, open, wire, opens, applied, state_q, slept>>

----------------------------------------------------------------------------
(* The worker: `for cmd in rx { match cmd { ... } }`. *)

(* A receiver that yields the newest message instead. *)
RecvPosNewest(q) == Len(q)

(* The iterator of the receiver yields the oldest message of the channel. *)
RecvPos(q) == 1

Next_cmd == queue[RecvPos(queue)]

(* A receiver that leaves the message it yielded in the channel. *)
RestKeepsAll(q) == q

(* The channel once the message at RecvPos was taken out of it. *)
Rest(q) == [i \in 1..(Len(q) - 1) |-> IF i < RecvPos(q) THEN q[i] ELSE q[i + 1]]

(* A burst that polls the channel between its clock writes. *)
CanRecvInBurst == pc \in {"recv", "burst"}

(* The worker receives only at the top of its loop. *)
CanRecv == pc = "recv"

(* The worker receives the next command, which is of type t.  `had` is     *)
(* history: the handle `conn` held when the command was received.          *)
Recv(t) ==
    /\ CanRecv
    /\ queue # <<>>
    /\ Next_cmd.cmd.type = t
    /\ cur' = Next_cmd
    /\ applied' = Append(applied, [id |-> Next_cmd.id, cmd |-> Next_cmd.cmd,
                                   had |-> conn.hid])

(* ... and the loop goes on: the other messages stay in the channel. *)
Take(t) ==
    /\ Recv(t)
    /\ queue' = Rest(queue)

(* open_output: Err for an index with no port, and Ok or Err (a device     *)
(* error of midi_out.connect) for an index with one.                       *)
OpenOutcomes(idx) == IF idx \in PortIdx THEN {TRUE, FALSE} ELSE {FALSE}

(* What the Err arm of `match open_output(idx)` leaves in `conn`. *)
ConnAfterOpenErr(c) == c

(* A Connect that opens a port whatever its index is. *)
OpensPortAlways(maybe_idx) == TRUE

(* `if let Some(idx) = maybe_idx`. *)
OpensPort(maybe_idx) == maybe_idx # NoneIdx

(* Connect(maybe_idx, ch), up to and including the call of open_output. *)
ApplyConnect ==
    /\ Take("Connect")
    /\ current_channel' = Next_cmd.cmd.channel
    /\ IF ~OpensPort(Next_cmd.cmd.idx)
       THEN /\ UNCHANGED <<pc, conn, newc, open, opens>>
       ELSE \E ok \in OpenOutcomes(Next_cmd.cmd.idx) :
              IF ok
              THEN /\ opens' = Append(opens, [id |-> Next_cmd.id, idx |-> Next_cmd.cmd.idx,
                                              hid |-> NextHid])
                   /\ newc' = Handle(NextHid, Next_cmd.cmd.idx)
                   /\ open' = open \cup {Handle(NextHid, Next_cmd.cmd.idx)}
                   /\ pc' = "opened"
                   /\ UNCHANGED conn
              ELSE /\ opens' = Append(opens, [id |-> Next_cmd.id, idx |-> Next_cmd.cmd.idx,
                                              hid |-> 0])
                   /\ conn' = ConnAfterOpenErr(conn)
                   /\ open' = IF conn' = conn THEN open ELSE open \ {conn}
                   /\ UNCHANGED <<pc, newc>>
    /\ UNCHANGED <<variant, connected, device_bpm, senders, lines, sent, current_port, current_bpm, burst_i, wire, state_q, slept>>

DeviceStateOnConnect ==
    IF variant = "gui_rs"
    THEN <<[kind |-> "Artist", v |-> 0], [kind |-> "Bpm", v |-> current_bpm]>>
    ELSE <<>>

(* The Ok(c) arm: `conn = Some(c)` drops the connection `conn` held. *)
ConnectAssign ==
    /\ pc = "opened"
    /\ conn' = newc
    /\ open' = open \ {conn}
    /\ current_port' = newc.port
    /\ newc' = NoConn
    /\ state_q' = state_q \o DeviceStateOnConnect
    /\ pc' = "recv"
    /\ UNCHANGED <<variant, connected, device_bpm, senders, lines, queue, sent, cur, current_channel, current_bpm, burst_i,
                   wire, opens, applied, slept>>

(* A Disconnect that keeps the connection. *)
ConnAfterDisconnectKept(c) == c

(* What the Disconnect arm leaves in `conn`. *)
ConnAfterDisconnect(c) == NoConn

ApplyDisconnect ==
    /\ Take("Disconnect")
    /\ conn' = ConnAfterDisconnect(conn)
    /\ open' = IF conn' = conn THEN open ELSE open \ {conn}
    /\ current_port' = NoneIdx
    /\ UNCHANGED <<variant, connected, device_bpm, senders, lines, sent, pc, current_channel, current_bpm, newc, burst_i,
                   wire, opens, state_q, slept>>

(* A send that does not look whether there is a connection. *)
ConnectedAlways(c) == TRUE

(* `if let Some(ref mut c) = conn`: whether there is a handle to write to. *)
Connected(c) == c # NoConn

(* A worker that gives up its connection when the driver refuses a write. *)
ConnAfterSendDropped(c, ok) == IF ok THEN c ELSE NoConn

(* What a conn.send call leaves in `conn`: the `if let Err(e)` arms only   *)
(* print, whatever the result.                                             *)
ConnAfterSend(c, ok) == c

(* One conn.send call of the command with number id on the handle in `conn`. *)
Send(id, bytes, ok) ==
    /\ wire' = Written(conn, id, bytes, ok)
    /\ conn' = ConnAfterSend(conn, ok)
    /\ open' = IF conn' = conn THEN open ELSE open \ {conn}

(* A command that makes one conn.send call when connected and none otherwise. *)
SendOnce(bytes) ==
    IF Connected(conn)
    THEN \E ok \in SendOutcomes : Send(Next_cmd.id, bytes, ok)
    ELSE UNCHANGED <<wire, conn, open>>

ApplySendCC ==
    /\ Take("SendCC")
    /\ SendOnce(EncodeCC(Next_cmd.cmd.channel, Next_cmd.cmd.a, Next_cmd.cmd.b))
    /\ UNCHANGED <<variant, connected, device_bpm, senders, lines, sent, pc, current_port, current_channel,
                   current_bpm, newc, burst_i, opens, state_q, slept>>

(* A burst that follows the 0xFA write even when it failed. *)
BurstFollowsAlways(ok) == variant = "gui_rs"

(* Whether the Start arm goes on to the clock burst after its 0xFA write. *)
BurstFollows(ok) == variant = "gui_rs" /\ ok

ApplyStart ==
    /\ Take("Start")
    /\ IF Connected(conn)
       THEN \E ok \in SendOutcomes :
              /\ Send(Next_cmd.id, <<StartByte>>, ok)
              /\ pc' = IF BurstFollows(ok) THEN "burst" ELSE "recv"
       ELSE UNCHANGED <<wire, conn, open, pc>>
    /\ UNCHANGED <<variant, connected, device_bpm, senders, lines, sent, current_port, current_channel,
                   current_bpm, newc, burst_i, opens, state_q, slept>>

(* A burst that sleeps the interval of the tempo, 60000 / (bpm * 24) ms. *)
SleepAfterTickTempo == IF current_bpm > 0 THEN 60000 \div (current_bpm * 24) ELSE 0

(* A burst that does not sleep after its last pulse. *)
SleepAfterTickButLast == IF burst_i + 1 = BurstTicks THEN 0 ELSE SleepMs

(* thread::sleep(d) returns no sooner than d after the call. *)
SleepAfterTick == SleepMs

(* A burst that ends at the first clock write the driver refuses. *)
BurstGoesOnIfOk(ok) == ok

(* Whether the burst goes on after a clock write: `if let Err(e)` only     *)
(* prints, and the iteration goes on to its sleep and the loop to the next *)
(* iteration.                                                              *)
BurstGoesOn(ok) == TRUE

(* One iteration of `for _ in 0..6`: a clock write, then the sleep. *)
BurstTick ==
    /\ pc = "burst"
    /\ \E ok \in SendOutcomes :
          /\ Send(cur.id, <<ClockByte>>, ok)
          /\ LET over == burst_i + 1 = BurstTicks \/ ~BurstGoesOn(ok) IN
             /\ burst_i' = IF over THEN 0 ELSE burst_i + 1
             /\ pc' = IF over THEN "recv" ELSE "burst"
    /\ slept' = slept + SleepAfterTick
    /\ UNCHANGED <<variant, connected, device_bpm, senders, lines, queue, sent, cur, current_port, current_channel,
                   current_bpm, newc, opens, applied, state_q>>

ApplyStop ==
    /\ Take("Stop")
    /\ SendOnce(<<StopByte>>)
    /\ UNCHANGED <<variant, connected, device_bpm, senders, lines, sent, pc, current_port, current_channel,
                   current_bpm, newc, burst_i, opens, state_q, slept>>

ApplyContinue ==
    /\ Take("Continue")
    /\ SendOnce(<<ContinueByte>>)
    /\ UNCHANGED <<variant, connected, device_bpm, senders, lines, sent, pc, current_port, current_channel,
                   current_bpm, newc, burst_i, opens, state_q, slept>>

ApplyQueryDevice ==
    /\ Take("QueryDevice")
    /\ state_q' = state_q \o <<[kind |-> "Artist", v |-> 0],
                               [kind |-> "Bpm", v |-> current_bpm]>>
    /\ UNCHANGED <<variant, connected, device_bpm, senders, lines, sent, pc, conn, current_port, current_channel, current_bpm,
                   newc, burst_i, open, wire, opens, slept>>

(* A SetBpm arm that leaves the tempo alone. *)
BpmAfterSetBpmKept(old, bpm) == old

(* `current_bpm = bpm`: the arm assigns whatever value the command carries. *)
BpmAfterSetBpm(old, bpm) == bpm

ApplySetBpm ==
    /\ Take("SetBpm")
    /\ current_bpm' = BpmAfterSetBpm(current_bpm, Next_cmd.cmd.a)
    /\ state_q' = Append(state_q, [kind |-> "Bpm", v |-> Next_cmd.cmd.a])
    /\ UNCHANGED <<variant, connected, device_bpm, senders, lines, sent, pc, conn, current_port, current_channel,
                   newc, burst_i, open, wire, opens, slept>>

ApplyProgramChange ==
    /\ Take("ProgramChange")
    /\ SendOnce(EncodeProgramChange(Next_cmd.cmd.channel, Next_cmd.cmd.a))
    /\ UNCHANGED <<variant, connected, device_bpm, senders, lines, sent, pc, current_port, current_channel,
                   current_bpm, newc, burst_i, opens, state_q, slept>>

ApplyNoteOn ==
    /\ Take("NoteOn")
    /\ SendOnce(EncodeNoteOn(Next_cmd.cmd.channel, Next_cmd.cmd.a, Next_cmd.cmd.b))
    /\ UNCHANGED <<variant, connected, device_bpm, senders, lines, sent, pc, current_port, current_channel,
                   current_bpm, newc, burst_i, opens, state_q, slept>>

ApplyNoteOff ==
    /\ Take("NoteOff")
    /\ SendOnce(EncodeNoteOff(Next_cmd.cmd.channel, Next_cmd.cmd.a))
    /\ UNCHANGED <<variant, connected, device_bpm, senders, lines, sent, pc, current_port, current_channel,
                   current_bpm, newc, burst_i, opens, state_q, slept>>

(* A Quit arm that goes on with the loop. *)
PcAfterQuitContinue == "recv"

(* Where `break` leaves the worker. *)
PcAfterQuit == "done"

(* A closure that returns without dropping its connection. *)
ConnAfterReturnKept(c) == c

(* What the return of the closure leaves of `conn`: the local is dropped,  *)
(* and the connection it held is closed.                                   *)
ConnAfterReturn(c) == NoConn

(* Quit: `break`; the closure returns, which drops `conn` and the receiver *)
(* with the messages still in the channel.                                 *)
ApplyQuit ==
    /\ Recv("Quit")
    /\ pc' = PcAfterQuit
    /\ IF pc' = "done"
       THEN /\ queue' = <<>>
            /\ conn' = ConnAfterReturn(conn)
            /\ open' = IF conn' = conn THEN open ELSE open \ {conn}
       ELSE /\ queue' = Rest(queue)
            /\ UNCHANGED <<conn, open>>
    /\ UNCHANGED <<variant, connected, device_bpm, senders, lines, sent, current_port, current_channel, current_bpm, newc,
                   burst_i, wire, opens, state_q, slept>>

Worker ==
    \/ ApplyConnect
    \/ ConnectAssign
    \/ ApplyDisconnect
    \/ ApplySendCC
    \/ ApplyStart
    \/ BurstTick
    \/ ApplyStop
    \/ ApplyContinue
    \/ ApplyQueryDevice
    \/ ApplySetBpm
    \/ ApplyProgramChange
    \/ ApplyNoteOn
    \/ ApplyNoteOff
    \/ ApplyQuit

Next ==
    \/ \E p \in Producers : \E c \in Sends(p, variant) : Enqueue(p, c)
    \/ Worker

Spec == Init /\ [][Next]_vars

----------------------------------------------------------------------------
(* The session around the worker: the UI thread is the one producer, and   *)
(* the process ends when the UI does.                                      *)

(* The app is dropped when the window is closed and run_native returns:    *)
(* its `tx`, the only Sender, goes with it.                                *)
DropSenders ==
    /\ senders
    /\ pc # "exited"
    /\ senders' = FALSE
    /\ UNCHANGED <<variant, connected, device_bpm, lines, queue, sent, pc, cur, conn, current_port,
                   current_channel, current_bpm, newc, burst_i, open, wire, opens,
                   applied, state_q, slept>>

(* A receiver that reports the hang-up before the channel is drained. *)
ChannelClosedEarly == ~senders

(* The iterator of the receiver returns None: every Sender was dropped and *)
(* no message is left in the channel.                                      *)
ChannelClosed == ~senders /\ queue = <<>>

(* `for cmd in rx` ends without a Quit; the closure returns, which drops   *)
(* `conn` and the receiver.                                                *)
Hangup ==
    /\ CanRecv
    /\ ChannelClosed
    /\ pc' = "closed"
    /\ queue' = <<>>
    /\ conn' = ConnAfterReturn(conn)
    /\ open' = IF conn' = conn THEN open ELSE open \ {conn}
    /\ UNCHANGED <<variant, connected, device_bpm, senders, lines, sent, cur, current_port, current_channel,
                   current_bpm, newc, burst_i, wire, opens, applied, state_q, slept>>

(* The UI thread has sent Quit: its next statement ends the process. *)
QuitClicked == \E i \in 1..Len(sent) : sent[i].cmd = Quit /\ sent[i].by = 1

(* The process ends: std::process::exit(0) after the Quit button's send in *)
(* gui.rs, the return of main after frame.close() or after the window was  *)
(* closed otherwise.  The worker thread is not joined: it stops wherever   *)
(* it is, and the system closes what was open.                             *)
ExitProcess ==
    /\ pc # "exited"
    /\ QuitClicked \/ ~senders
    /\ pc' = "exited"
    /\ senders' = FALSE
    /\ queue' = <<>>
    /\ conn' = NoConn
    /\ newc' = NoConn
    /\ open' = {}
    /\ UNCHANGED <<variant, connected, device_bpm, lines, sent, cur, current_port, current_channel, current_bpm,
                   burst_i, wire, opens, applied, state_q, slept>>

SessionNext ==
    \/ \E c \in Commands(variant) : Enqueue(1, c)
    \/ Worker
    \/ DropSenders
    \/ Hangup
    \/ ExitProcess

SessionSpec == Init /\ [][SessionNext]_vars

----------------------------------------------------------------------------
(* The window: MidiGuiApp::update, run by the UI thread once a frame.  A   *)
(* step of the UI is one control used in one frame.  The port and the      *)
(* channel of the window are the user's to set before any click, so a      *)
(* click takes any of them.                                                *)

(* `let _ = self.tx.send(cmd)` in a handler of update; no handler runs     *)
(* once the Quit button's has, or the window is closed.                    *)
UiSend(c) ==
    /\ senders
    /\ ~QuitClicked
    /\ Len(sent) < MaxCmds
    /\ sent' = Append(sent, [id |-> Len(sent) + 1, by |-> 1, cmd |-> c,
                             phase |-> WorkerPhase])
    /\ queue' = IF pc = "done" THEN queue
                ELSE Append(queue, [id |-> Len(sent) + 1, cmd |-> c])
    /\ UNCHANGED <<variant, device_bpm, senders, lines, pc, cur, conn, current_port,
                   current_channel, current_bpm, newc, burst_i, open, wire, opens,
                   applied, state_q, slept>>

(* `selected_port`: None, or the index of a name in port_names. *)
UiPorts == PortIdx \cup {NoneIdx}

(* The Connect commands the button sends. *)
UiConnects == {c \in ConnectCommands : c.idx \in UiPorts}

(* A Connect button that waits for the worker before it sets the flag. *)
FlagAfterConnectClickKept(b) == b

(* `self.connected = true`, right after the send. *)
FlagAfterConnectClick(b) == TRUE

(* The Connect button, which is there `if !self.connected`. *)
ClickConnect ==
    /\ ~connected
    /\ \E c \in UiConnects : UiSend(c)
    /\ connected' = FlagAfterConnectClick(connected)

(* The Disconnect button, which is there when `self.connected`. *)
ClickDisconnect ==
    /\ connected
    /\ UiSend(Disconnect)
    /\ connected' = FALSE

(* The values of the BPM slider tried: `Slider::new(.., 20.0..=300.0)`. *)
UiBpms == {60, 300}

(* The BPM slider, which is there when `self.connected` (gui.rs only): it  *)
(* sends the value and leaves device_bpm to the worker's answer.           *)
SlideBpm ==
    /\ variant = "gui_rs"
    /\ connected
    /\ \E v \in UiBpms : UiSend(SetBpm(v))
    /\ connected' = connected

(* The Start, Stop and Continue buttons and a controller's slider. *)
UiOthers == {Start, Stop, Continue, SendCC(1, 74, 100)}

ClickOther ==
    /\ \E c \in UiOthers : UiSend(c)
    /\ connected' = connected

(* The Quit button: the send; what follows it is ExitProcess. *)
ClickQuit ==
    /\ UiSend(Quit)
    /\ connected' = connected

(* The Bpm of the last DeviceState::Bpm of q, old when q has none. *)
LastBpm(q, old) ==
    LET at == {i \in 1..Len(q) : q[i].kind = "Bpm"} IN
    IF at = {} THEN old ELSE q[CHOOSE i \in at : \A j \in at : j <= i].v

(* An update_device_state that takes the first message and leaves the     *)
(* rest for later frames it then never reads.                              *)
BpmAfterPollFirst(q, old) ==
    LET at == {i \in 1..Len(q) : q[i].kind = "Bpm"} IN
    IF at = {} THEN old ELSE q[CHOOSE i \in at : \A j \in at : i <= j].v

(* update_device_state: `while let Ok(state) = self.state_rx.try_recv()`   *)
(* assigns each Bpm in turn, so the last one stays.                        *)
BpmAfterPoll(q, old) == LastBpm(q, old)

(* update_device_state, at the top of a frame, with messages waiting. *)
UiPoll ==
    /\ variant = "gui_rs"
    /\ pc # "exited"
    /\ state_q # <<>>
    /\ device_bpm' = BpmAfterPoll(state_q, device_bpm)
    /\ state_q' = <<>>
    /\ UNCHANGED <<variant, connected, senders, lines, queue, sent, pc, cur, conn,
                   current_port, current_channel, current_bpm, newc, burst_i, open,
                   wire, opens, applied, slept>>

Ui ==
    \/ ClickConnect
    \/ ClickDisconnect
    \/ SlideBpm
    \/ ClickOther
    \/ ClickQuit
    \/ UiPoll

(* The arms of the worker that a command of the window reaches: no        *)
(* control of either window sends QueryDevice, ProgramChange, NoteOn or    *)
(* NoteOff, so the worker never takes those arms.                          *)
UiWorker ==
    \/ ApplyConnect
    \/ ConnectAssign
    \/ ApplyDisconnect
    \/ ApplySendCC
    \/ ApplyStart
    \/ BurstTick
    \/ ApplyStop
    \/ ApplyContinue
    \/ ApplySetBpm
    \/ ApplyQuit

(* The window and its worker, to the end of the process. *)
GuiNext ==
    \/ Ui
    \/ UiWorker
    \/ DropSenders
    \/ Hangup
    \/ ExitProcess

GuiSpec == Init /\ [][GuiNext]_vars

(* The worker with one producer that sends any command, QueryDevice        *)
(* included, and a window that polls.                                      *)
PollNext ==
    \/ \E c \in Commands(variant) : Enqueue(1, c)
    \/ Worker
    \/ UiPoll

PollSpec == Init /\ [][PollNext]_vars

----------------------------------------------------------------------------
(* The encoder on every channel and data value: the worker is connected    *)
(* to port 0, one data or transport message is sent to it, and then the    *)
(* same message once more.                                                 *)

MaxChannel == 16      \* `clamp_range(1..=16)`
MaxData == 127        \* `egui::Slider::new(.., 0..=127)`

UserChannels == 1..MaxChannel
DataBytes == 0..MaxData

(* The pairs of data bytes tried: each byte over its whole range, with the *)
(* other at an end of it.                                                  *)
DataPairs == (DataBytes \X {0, MaxData}) \cup ({0, MaxData} \X DataBytes)

EncoderInputs(v) ==
    {Stop, Continue}
    \cup {SendCC(ch, d[1], d[2]) : ch \in UserChannels, d \in DataPairs}
    \cup IF v = "gui_rs" THEN {}
         ELSE {ProgramChange(ch, x) : ch \in UserChannels, x \in DataBytes}
              \cup {NoteOn(ch, d[1], d[2]) : ch \in UserChannels, d \in DataPairs}
              \cup {NoteOff(ch, x) : ch \in UserChannels, x \in DataBytes}

(* `let _ = self.tx.send(cmd)` of the UI thread. *)
Feed(c) ==
    /\ senders
    /\ pc # "done"
    /\ sent' = Append(sent, [id |-> Len(sent) + 1, by |-> 1, cmd |-> c,
                             phase |-> WorkerPhase])
    /\ queue' = Append(queue, [id |-> Len(sent) + 1, cmd |-> c])
    /\ UNCHANGED <<variant, connected, device_bpm, senders, lines, pc, cur, conn, current_port, current_channel,
                   current_bpm, newc, burst_i, open, wire, opens, applied, state_q, slept>>

FeedConnect == sent = <<>> /\ Feed(Connect(0, 1))

FeedInput == Len(sent) = 1 /\ \E c \in EncoderInputs(variant) : Feed(c)

FeedAgain == Len(sent) = 2 /\ Feed(sent[2].cmd)

EncoderNext ==
    \/ FeedConnect
    \/ FeedInput
    \/ FeedAgain
    \/ ApplyConnect
    \/ ConnectAssign
    \/ ApplySendCC
    \/ ApplyProgramChange
    \/ ApplyNoteOn
    \/ ApplyNoteOff
    \/ ApplyStop
    \/ ApplyContinue

EncoderSpec == Init /\ [][EncoderNext]_vars

----------------------------------------------------------------------------
(* The command line: interactive_loop, which main calls with the           *)
(* connection it opened and the channel of the arguments.  A line is the   *)
(* sequence of its whitespace-separated tokens; a token is a word or the   *)
(* decimal numeral of an integer.                                          *)

Word(s) == [k |-> "word", w |-> s, n |-> 0]
Num(v) == [k |-> "num", w |-> "", n |-> v]

U8Max == 255          \* u8::MAX
ParseErr == -1        \* the Err of str::parse::<u8>

(* `tok.parse::<u8>()`: Ok for the numerals of 0..255, Err for a word and  *)
(* for a numeral out of the range of u8.                                   *)
ParseU8(tok) == IF tok.k = "num" /\ tok.n \in 0..U8Max THEN tok.n ELSE ParseErr

(* `to_lowercase()`, on the words the model types. *)
Lower(w) == CASE w = "CC" -> "cc"
              [] w = "Start" -> "start"
              [] OTHER -> w

(* The numbers typed: the ends of the ranges of a data byte and of a u8,   *)
(* and the first number past each.                                         *)
CliNums == {MaxData, MaxData + 1, U8Max, U8Max + 1}

(* The pairs of numbers typed: both in the range of a data byte, or one of *)
(* the two past it.                                                        *)
CliPairs == (CliNums \X {MaxData}) \cup ({MaxData} \X CliNums)

CliLines ==
    {<<>>, <<Word("help")>>, <<Word("list")>>, <<Word("exit")>>, <<Word("bogus")>>,
     <<Word("start")>>, <<Word("Start")>>, <<Word("stop")>>, <<Word("continue")>>,
     <<Word("cc")>>, <<Word("cc"), Num(74)>>, <<Word("cc"), Word("x"), Num(1)>>,
     <<Word("CC"), Num(74), Num(100)>>,
     <<Word("pc")>>, <<Word("pc"), Word("x")>>,
     <<Word("noteon"), Num(60)>>, <<Word("noteoff")>>}
    \cup {<<Word("cc"), Num(d[1]), Num(d[2])>> : d \in CliPairs}
    \cup {<<Word("pc"), Num(x)>> : x \in CliNums}
    \cup {<<Word("noteon"), Num(d[1]), Num(d[2])>> : d \in CliPairs}
    \cup {<<Word("noteoff"), Num(x)>> : x \in CliNums}

(* `--channel`: any u8 is taken; the help of the argument asks for 1-16. *)
CliChannels == {0, DefaultChannel, MaxChannel + 1}

(* `--port`, or the index typed at the prompt: the first port. *)
CliPorts == {p \in PortIdx : \A q \in PortIdx : p <= q}

(* The state when main calls interactive_loop: open_output(selected) has   *)
(* returned the connection.                                                *)
CliInit ==
    /\ variant = "cli"
    /\ pc = "cli"
    /\ \E p \in CliPorts :
          /\ conn = Handle(1, p)
          /\ open = {Handle(1, p)}
          /\ opens = <<[id |-> 0, idx |-> p, hid |-> 1]>>
    /\ current_channel \in CliChannels
    /\ current_port = NoneIdx
    /\ current_bpm = DefaultBpm
    /\ queue = <<>>
    /\ sent = <<>>
    /\ cur = NoCmd
    /\ newc = NoConn
    /\ burst_i = 0
    /\ wire = <<>>
    /\ applied = <<>>
    /\ state_q = <<>>
    /\ slept = 0
    /\ senders = FALSE
    /\ lines = <<>>
    /\ connected = FALSE
    /\ device_bpm = DefaultBpm

(* `args[0].to_lowercase()`; a line with no token has no command. *)
CliCommand(l) == IF l = <<>> THEN "" ELSE Lower(l[1].w)

(* The message a line makes interactive_loop send, <<>> when it sends none. *)
CliMessage(l, ch) ==
    LET c == CliCommand(l) IN
    CASE c = "cc" /\ Len(l) >= 3 /\ ParseU8(l[2]) # ParseErr /\ ParseU8(l[3]) # ParseErr ->
            EncodeCC(ch, ParseU8(l[2]), ParseU8(l[3]))
      [] c = "start" -> <<StartByte>>
      [] c = "stop" -> <<StopByte>>
      [] c = "continue" -> <<ContinueByte>>
      [] c = "pc" /\ Len(l) >= 2 /\ ParseU8(l[2]) # ParseErr ->
            EncodeProgramChange(ch, ParseU8(l[2]))
      [] c = "noteon" /\ Len(l) >= 3 /\ ParseU8(l[2]) # ParseErr /\ ParseU8(l[3]) # ParseErr ->
            EncodeNoteOn(ch, ParseU8(l[2]), ParseU8(l[3]))
      [] c = "noteoff" /\ Len(l) >= 2 /\ ParseU8(l[2]) # ParseErr ->
            EncodeNoteOff(ch, ParseU8(l[2]))
      [] OTHER -> <<>>

(* Whether the line makes interactive_loop panic: the encoders of the     *)
(* channel messages compute `channel - 1`, the transport messages do not.  *)
CliPanics(l, ch) ==
    IF CliCommand(l) \in {"cc", "pc", "noteon", "noteoff"} THEN Sub1Panics(ch) ELSE {FALSE}

(* One iteration of `for line in stdin.lock().lines()` on the line l.      *)
(* `exit` breaks the loop: interactive_loop and main return, the process   *)
(* ends and the connection with it.  A panic of the main thread ends the   *)
(* process too.                                                            *)
CliReadLine(l) ==
    /\ pc = "cli"
    /\ Len(lines) < MaxLines
    /\ lines' = Append(lines, l)
    /\ IF CliCommand(l) = "exit"
       THEN /\ pc' = "cli_done"
            /\ conn' = NoConn
            /\ open' = {}
            /\ UNCHANGED wire
       ELSE IF CliMessage(l, current_channel) = <<>>
            THEN UNCHANGED <<pc, wire, conn, open>>
            ELSE \E panics \in CliPanics(l, current_channel) :
                   IF panics
                   THEN /\ pc' = "cli_panic"
                        /\ conn' = NoConn
                        /\ open' = {}
                        /\ UNCHANGED wire
                   ELSE /\ pc' = pc
                        /\ \E ok \in SendOutcomes :
                              Send(Len(lines) + 1, CliMessage(l, current_channel), ok)
    /\ UNCHANGED <<variant, connected, device_bpm, senders, queue, sent, cur, current_port, current_channel,
                   current_bpm, newc, burst_i, opens, applied, state_q, slept>>

(* The end of stdin, or an error reading it: the loop ends as for `exit`.  *)
CliEndOfInput ==
    /\ pc = "cli"
    /\ pc' = "cli_done"
    /\ conn' = NoConn
    /\ open' = {}
    /\ UNCHANGED <<variant, connected, device_bpm, senders, lines, queue, sent, cur, current_port,
                   current_channel, current_bpm, newc, burst_i, wire, opens, applied,
                   state_q, slept>>

CliNext ==
    \/ \E l \in CliLines : CliReadLine(l)
    \/ CliEndOfInput

CliSpec == CliInit /\ [][CliNext]_vars

----------------------------------------------------------------------------
(* The clock generator: send_timing_clock(conn, bpm, ticks), called on an  *)
(* open connection.  `cur` holds the call (bpm in a, ticks in b) and       *)
(* burst_i the iterations of `for _ in 0..ticks` completed.                *)

PulsesPerQuarter == 24    \* `bpm * 24.0`

(* `ms_per_tick = (60.0 / (bpm * 24.0)) * 1000.0`, in thousandths of a     *)
(* millisecond.                                                            *)
MsPerTick1000(bpm) == (60 * 1000 * 1000) \div (bpm * PulsesPerQuarter)

(* `Duration::from_millis(ms_per_tick as u64)`: the cast drops the         *)
(* fraction.                                                               *)
TickSleepMs(bpm) == MsPerTick1000(bpm) \div 1000

(* The tempos tried: those of the claim and the ends of the slider. *)
ClockBpms == {20, 60, 120, 300}

ClockCall(bpm, ticks) == [id |-> 1, cmd |-> Cmd("send_timing_clock", 0, 0, bpm, ticks)]

ClockInit ==
    /\ variant = "clock"
    /\ pc = "clock"
    /\ \E bpm \in ClockBpms : \E ticks \in 0..MaxTicks : cur = ClockCall(bpm, ticks)
    /\ \E p \in PortIdx :
          /\ conn = Handle(1, p)
          /\ open = {Handle(1, p)}
          /\ opens = <<[id |-> 0, idx |-> p, hid |-> 1]>>
    /\ current_channel = DefaultChannel
    /\ current_port = NoneIdx
    /\ current_bpm = DefaultBpm
    /\ queue = <<>>
    /\ sent = <<>>
    /\ newc = NoConn
    /\ burst_i = 0
    /\ wire = <<>>
    /\ applied = <<>>
    /\ state_q = <<>>
    /\ slept = 0
    /\ senders = FALSE
    /\ lines = <<>>
    /\ connected = FALSE
    /\ device_bpm = DefaultBpm

(* A generator that prints the error of a failed write and goes on, as    *)
(* the burst of the Start arm does.                                        *)
PcAfterTickGoesOn(ok) == "clock"

(* `send_realtime(conn, 0xF8)?`: the function goes on after a write that   *)
(* succeeded and returns the error of one that failed.                     *)
PcAfterTick(ok) == IF ok THEN "clock" ELSE "clock_err"

(* One iteration: `send_realtime(conn, 0xF8)?`, which returns the error of *)
(* a failed write at once, then the sleep.                                 *)
ClockTick ==
    /\ pc = "clock"
    /\ burst_i < cur.cmd.b
    /\ \E ok \in SendOutcomes :
          /\ Send(cur.id, <<ClockByte>>, ok)
          /\ pc' = PcAfterTick(ok)
          /\ IF pc' = "clock"
             THEN /\ slept' = slept + TickSleepMs(cur.cmd.a)
                  /\ burst_i' = burst_i + 1
             ELSE /\ UNCHANGED <<slept, burst_i>>
    /\ UNCHANGED <<variant, connected, device_bpm, senders, lines, queue, sent, cur, current_port,
                   current_channel, current_bpm, newc, opens, applied, state_q>>

(* The loop is over: `Ok(())`. *)
ClockReturn ==
    /\ pc = "clock"
    /\ burst_i = cur.cmd.b
    /\ pc' = "clock_ok"
    /\ UNCHANGED <<variant, connected, device_bpm, senders, lines, queue, sent, cur, conn, current_port,
                   current_channel, current_bpm, newc, burst_i, open, wire, opens,
                   applied, state_q, slept>>

ClockNext == ClockTick \/ ClockReturn

ClockSpec == ClockInit /\ [][ClockNext]_vars

(* The thread that called send_timing_clock keeps running: the call of     *)
(* conn.send returns and each sleep ends.                                  *)
ClockLiveSpec == ClockSpec /\ WF_vars(ClockNext)

----------------------------------------------------------------------------
(* The program: main runs the window and its worker when it is built with  *)
(* the egui feature, and interactive_loop otherwise.                       *)

ProgramInit == Init \/ CliInit

ProgramNext == Next \/ CliNext

ProgramSpec == ProgramInit /\ [][ProgramNext]_vars

(* The threads of the program.  run_gui spawns the worker and runs the     *)
(* window on the thread that called it; interactive_loop spawns the        *)
(* keepalive thread and reads stdin on the thread that called it.          *)
Threads == IF variant = "cli" THEN {"main", "keepalive"} ELSE {"ui", "worker"}

(* A keepalive closure that names the clone, which `move` then takes in. *)
KeepaliveCapturesClone(c) == {c} \ {NoConn}

(* The connections the closure of the keepalive thread captures: its body  *)
(* names no variable, so it captures none, and `_keepalive_conn`, the      *)
(* clone of the Arc, stays a local of interactive_loop.                    *)
KeepaliveCaptures(c) == {}

(* The connections thread th holds a reference to: the worker its locals   *)
(* `conn` and `c`, the window none (MidiGuiApp has the Sender only), the   *)
(* main thread of the command line the Arc and its clone.                  *)
Holds(th) ==
    CASE th = "worker" -> {conn, newc} \ {NoConn}
      [] th = "ui" -> {}
      [] th = "main" -> {conn} \ {NoConn}
      [] th = "keepalive" -> KeepaliveCaptures(conn)

----------------------------------------------------------------------------
(* Reading the histories. *)

Last(q) == q[Len(q)]

(* The conn.send calls of command number k, in the order they were made. *)
CallsOf(k) == SelectSeq(wire, LAMBDA w : w.id = k)

(* The place in `opens` of the open_output call of command number k that  *)
(* returned a handle; 0 when it made no call or the call failed.           *)
OpenedAt(k) ==
    IF \E i \in 1..Len(opens) : opens[i].id = k /\ opens[i].hid # 0
    THEN (CHOOSE i \in 1..Len(opens) : opens[i].id = k /\ opens[i].hid # 0)
    ELSE 0

(* Command number k is no longer being executed. *)
Completed(k) ==
    /\ \E i \in 1..Len(applied) : applied[i].id = k
    /\ ~(pc \in {"burst", "opened"} /\ cur.id = k)

DataTypes == {"SendCC", "ProgramChange", "NoteOn", "NoteOff"}
TransportTypes == {"Start", "Stop", "Continue"}

----------------------------------------------------------------------------
(* C1: commands are applied in the channel's order, whoever sent them: the *)
(* worker receives them in increasing order of sending, each received      *)
(* command is the one that was sent under its number, and the writes of a  *)
(* command sent earlier all come before every write of one sent later, so  *)
(* the writes of two commands never interleave.                            *)
FifoOrder ==
    /\ \A i, j \in 1..Len(applied) : i < j => applied[i].id < applied[j].id
    /\ \A i \in 1..Len(applied) :
         /\ applied[i].id \in 1..Len(sent)
         /\ applied[i].cmd = sent[applied[i].id].cmd
    /\ \A i, j \in 1..Len(wire) : i < j => wire[i].id <= wire[j].id
    /\ \A i \in 1..Len(wire) : \E j \in 1..Len(applied) : applied[j].id = wire[i].id

(* Two producers raced: a command of one wrote before a later command of   *)
(* the other.                                                              *)
FifoOrderWitness ==
    \E i, j \in 1..Len(wire) :
        /\ i < j
        /\ wire[i].id < wire[j].id
        /\ sent[wire[i].id].by # sent[wire[j].id].by
        /\ wire[i].ok /\ wire[j].ok

----------------------------------------------------------------------------
(* The Start commands the gui.rs worker received while it held a handle. *)
StartsConnected ==
    {i \in 1..Len(applied) :
        /\ variant = "gui_rs"
        /\ applied[i].cmd = Start
        /\ applied[i].had # 0
        /\ Completed(applied[i].id)}

BurstBytes == <<StartByte>> \o [n \in 1..BurstTicks |-> ClockByte]

(* The bytes of the writes of command k, one after the other. *)
BytesOf(k) == [n \in 1..Len(CallsOf(k)) |-> CallsOf(k)[n].bytes[1]]

(* C2 as stated: in gui.rs every Start applied while Connected writes 0xFA *)
(* and six 0xF8, seven bytes and nothing else, the 0xF8 at least 8 ms      *)
(* apart.                                                                  *)
StartBurstAlways ==
    \A i \in StartsConnected :
        LET w == CallsOf(applied[i].id) IN
        /\ BytesOf(applied[i].id) = BurstBytes
        /\ \A n \in 3..Len(w) : w[n].t - w[n - 1].t >= SleepMs

(* C2, amended: in gui.rs a Start applied while Connected writes 0xFA to   *)
(* the handle; when that write succeeds it writes six 0xF8 after it (seven *)
(* bytes, nothing else), consecutive 0xF8 writes at least 8 ms apart; when *)
(* the 0xFA write fails it writes nothing more.                            *)
StartBurst ==
    \A i \in StartsConnected :
        LET w == CallsOf(applied[i].id) IN
        /\ Len(w) >= 1
        /\ w[1].bytes = <<StartByte>>
        /\ \A n \in 1..Len(w) : w[n].hid = applied[i].had /\ Len(w[n].bytes) = 1
        /\ w[1].ok => /\ BytesOf(applied[i].id) = BurstBytes
                      /\ \A n \in 3..Len(w) : w[n].t - w[n - 1].t >= SleepMs
        /\ ~w[1].ok => Len(w) = 1

(* A burst has been written in full, and a command after it was applied. *)
StartBurstWitness ==
    \E i \in StartsConnected :
        /\ CallsOf(applied[i].id)[1].ok
        /\ Len(CallsOf(applied[i].id)) = 1 + BurstTicks
        /\ i < Len(applied)

----------------------------------------------------------------------------
(* The writes that opened a burst: a 0xFA of gui.rs that succeeded. *)
BurstHeads == {i \in 1..Len(wire) :
                 variant = "gui_rs" /\ wire[i].bytes = <<StartByte>> /\ wire[i].ok}

(* The clock writes of command number k. *)
PulsesOf(k) == Cardinality({i \in 1..Len(wire) :
                              wire[i].id = k /\ wire[i].bytes = <<ClockByte>>})

(* In every state: the six writes after the 0xFA of a burst are the 0xF8   *)
(* of the same Start, and a command received after a burst began was       *)
(* received after the sixth 0xF8 of that burst.                            *)
BurstUnbroken ==
    /\ \A i \in BurstHeads : \A n \in 1..BurstTicks :
         i + n <= Len(wire) =>
            /\ wire[i + n].id = wire[i].id
            /\ wire[i + n].bytes = <<ClockByte>>
    /\ \A i \in BurstHeads : \A j \in 1..Len(applied) :
         applied[j].id > wire[i].id => PulsesOf(wire[i].id) = BurstTicks

(* In every step taken during a burst: nothing is received, and the only   *)
(* write is a 0xF8 of the Start being executed.                            *)
BurstStep ==
    pc = "burst" =>
       /\ applied' = applied
       /\ cur' = cur
       /\ Len(queue') >= Len(queue)
       /\ wire' # wire => /\ Len(wire') = Len(wire) + 1
                          /\ Last(wire').id = cur.id
                          /\ Last(wire').bytes = <<ClockByte>>

(* C3: a Start burst in progress is never preempted: while the worker is   *)
(* in the burst no other command is received or applied, a command sent    *)
(* during the burst is applied only after the sixth clock pulse, and no    *)
(* byte of another command comes between the 0xFA and the sixth 0xF8.      *)
NoPreemption == [](BurstUnbroken) /\ [][BurstStep]_vars

(* A Stop sent while the burst was running has written its 0xFC. *)
NoPreemptionWitness ==
    \E i \in 1..Len(wire) :
        /\ wire[i].bytes = <<StopByte>>
        /\ sent[wire[i].id].phase = "burst"
        /\ \E j \in BurstHeads : j + BurstTicks < i

----------------------------------------------------------------------------
(* A step in which the worker receives a command. *)
Receives == applied' # applied

(* The command received in such a step. *)
Received == Last(applied').cmd

(* In every state: each write was made by a command that was received      *)
(* while `conn` held a handle, and went to that handle.                    *)
WritesNeedHandle ==
    \A i \in 1..Len(wire) :
        /\ wire[i].hid # 0
        /\ \E j \in 1..Len(applied) :
              applied[j].id = wire[i].id /\ applied[j].had = wire[i].hid

(* In every step that applies a data or transport command while           *)
(* Disconnected: nothing is written, the state stays Disconnected, and     *)
(* the worker is back at the top of its loop with the rest of the channel. *)
OfflineStep ==
    (Receives /\ conn = NoConn /\ Received.type \in DataTypes \cup TransportTypes) =>
       /\ wire' = wire
       /\ conn' = NoConn
       /\ open' = open
       /\ opens' = opens
       /\ pc' = "recv"
       /\ queue' = Tail(queue)

(* C4: no byte is written while Disconnected: a data or transport command  *)
(* applied while Disconnected writes nothing, leaves the state             *)
(* Disconnected and does not stop the worker.                              *)
OfflineSafety == [](WritesNeedHandle) /\ [][OfflineStep]_vars

(* A data command was applied while Disconnected, and a later command      *)
(* wrote its bytes.                                                        *)
OfflineSafetyWitness ==
    \E i, j \in 1..Len(applied) :
        /\ i < j
        /\ applied[i].had = 0
        /\ applied[i].cmd.type \in DataTypes
        /\ CallsOf(applied[i].id) = <<>>
        /\ \E n \in 1..Len(wire) : wire[n].id = applied[j].id /\ wire[n].ok

----------------------------------------------------------------------------
(* In every state: Quit is the last command received, and no write was     *)
(* made by a command sent after it.                                        *)
NothingAfterQuit ==
    /\ \A i \in 1..Len(applied) : applied[i].cmd = Quit => i = Len(applied)
    /\ \A i \in 1..Len(applied) : applied[i].cmd = Quit => pc = "done"
    /\ \A i \in 1..Len(applied) : \A n \in 1..Len(wire) :
         applied[i].cmd = Quit => wire[n].id < applied[i].id

(* In every step after Quit was received: the worker's state, the wire     *)
(* and the handles stay as they are.                                       *)
AfterQuitStep ==
    pc = "done" =>
       UNCHANGED <<queue, pc, cur, conn, current_port, current_channel, current_bpm,
                   newc, burst_i, open, wire, opens, applied, state_q, slept>>

(* C5: once the worker has received Quit no later command is applied:      *)
(* every command sent behind Quit, before or after Quit was processed,     *)
(* writes nothing and changes no state.                                    *)
QuitIsFinal == [](NothingAfterQuit) /\ [][AfterQuitStep]_vars

(* Quit was applied on an open connection with a controller change sent    *)
(* behind it before the worker received Quit.                              *)
QuitIsFinalWitness ==
    /\ pc = "done"
    /\ Last(applied).had # 0
    /\ \E i \in 1..Len(sent) :
          /\ i > Last(applied).id
          /\ sent[i].cmd.type = "SendCC"
          /\ sent[i].phase = "run"

----------------------------------------------------------------------------
(* C6 as stated: at no point are two output handles open at the same time. *)
AtMostOneHandle == Cardinality(open) <= 1

----------------------------------------------------------------------------
(* The handle the commands received so far leave the worker connected to,  *)
(* as the history of received commands and open_output results gives it:   *)
(* that of the last successful Connect(Some(idx), _) among the first n     *)
(* received commands, 0 when there is none or a Disconnect or Quit came    *)
(* after it.                                                               *)
RECURSIVE ExpectedHandle(_)
ExpectedHandle(n) ==
    IF n = 0 THEN 0
    ELSE IF applied[n].cmd.type \in {"Disconnect", "Quit"} THEN 0
    ELSE IF applied[n].cmd.type = "Connect" /\ OpenedAt(applied[n].id) # 0
         THEN opens[OpenedAt(applied[n].id)].hid
    ELSE ExpectedHandle(n - 1)

(* The place in `opens` of the open_output call that returned handle h. *)
OpenCall(h) == (CHOOSE i \in 1..Len(opens) : opens[i].hid = h)

(* C7: every write goes to the handle opened by the most recent successful *)
(* Connect(Some(idx), _) not since followed by Disconnect or Quit; between *)
(* commands that handle is the only one open; and a                        *)
(* ControlChange{channel: 1, controller: 74, value: 100} applied on a      *)
(* handle of port 0 makes one write, [0xB0, 74, 100], to port 0.           *)
WritesGoToCurrent ==
    /\ \A n \in 1..Len(applied) :
         LET h == ExpectedHandle(n - 1)
             w == CallsOf(applied[n].id)
         IN  w # <<>> =>
               /\ h # 0
               /\ \A i \in 1..Len(w) :
                    w[i].hid = h /\ w[i].port = opens[OpenCall(h)].idx
    /\ pc \in {"recv", "done"} =>
         LET h == ExpectedHandle(Len(applied))
         IN  open = IF h = 0 THEN {} ELSE {Handle(h, opens[OpenCall(h)].idx)}
    /\ \A n \in 1..Len(applied) :
         applied[n].cmd = SendCC(1, 74, 100) =>
            LET h == ExpectedHandle(n - 1)
                w == CallsOf(applied[n].id)
            IN  (h # 0 /\ opens[OpenCall(h)].idx = 0) =>
                  /\ Len(w) = 1
                  /\ w[1].bytes = <<176, 74, 100>>
                  /\ w[1].port = 0

(* Connect(Some(0), 1) and Connect(Some(1), 2) both succeeded, and the     *)
(* controller change after them was written to port 1.                     *)
WritesGoToCurrentWitness ==
    /\ Len(opens) = 2
    /\ opens[1].idx = 0 /\ opens[1].hid # 0
    /\ opens[2].idx = 1 /\ opens[2].hid # 0
    /\ open = {Handle(opens[2].hid, 1)}
    /\ Len(wire) = 1
    /\ wire[1].port = 1 /\ wire[1].ok /\ wire[1].bytes = <<176, 74, 100>>

----------------------------------------------------------------------------
(* A step in which open_output was called and returned Err. *)
OpenFails == Len(opens') = Len(opens) + 1 /\ Last(opens').hid = 0

(* C8 as stated: after Connect(Some(idx), ch) fails the state is           *)
(* Disconnected, whatever it was before, and the worker goes on.           *)
FailedConnectDisconnects ==
    [][OpenFails => (conn' = NoConn /\ open' = {} /\ pc' = "recv")]_vars

----------------------------------------------------------------------------
(* A step in which the worker receives Connect(None, ch). *)
ReceivesConnectNone ==
    Receives /\ Received.type = "Connect" /\ Received.idx = NoneIdx

(* C9: Connect(None, ch) makes no attempt to open a port and leaves the    *)
(* connection (handle and port index) as it was, Connected or not; only    *)
(* the recorded channel changes, to ch.                                    *)
ConnectNoneFrame ==
    [][ReceivesConnectNone =>
         /\ opens' = opens
         /\ conn' = conn
         /\ current_port' = current_port
         /\ open' = open
         /\ current_channel' = Received.channel
         /\ UNCHANGED <<pc, current_bpm, newc, burst_i, wire, state_q, slept>>]_vars

(* Connect(None, 2) was applied on an open connection whose channel was 1: *)
(* the handle and the port are the same, the channel is 2.                 *)
ConnectNoneFrameWitness ==
    /\ Len(applied) = 2
    /\ applied[1].cmd = Connect(0, 1)
    /\ applied[2].cmd = Connect(NoneIdx, 2)
    /\ applied[2].had # 0
    /\ conn = Handle(applied[2].had, 0)
    /\ current_port = 0
    /\ current_channel = 2

----------------------------------------------------------------------------
(* A step in which the worker receives Disconnect. *)
ReceivesDisconnect == Receives /\ Received.type = "Disconnect"

(* C10: Disconnect always leaves the state Disconnected with the handle    *)
(* released and writes nothing; applied when already Disconnected it       *)
(* changes no state, so twice in a row is the same as once.                *)
DisconnectIdempotent ==
    [][ReceivesDisconnect =>
         /\ conn' = NoConn
         /\ current_port' = NoneIdx
         /\ open' = {}
         /\ wire' = wire
         /\ pc' = "recv"
         /\ conn = NoConn =>
              UNCHANGED <<pc, conn, current_port, current_channel, current_bpm, newc,
                          burst_i, open, wire, opens, state_q, slept>>]_vars

(* Disconnect was applied on an open connection and then once more. *)
DisconnectIdempotentWitness ==
    \E i \in 1..Len(applied) :
        /\ i + 1 = Len(applied)
        /\ applied[i].cmd = Disconnect /\ applied[i].had # 0
        /\ applied[i + 1].cmd = Disconnect /\ applied[i + 1].had = 0
        /\ conn = NoConn /\ open = {}

----------------------------------------------------------------------------
(* The bytes of the one message a data or transport command writes (the    *)
(* first write, for Start).                                                *)
Encoded(cmd) ==
    CASE cmd.type = "SendCC" -> EncodeCC(cmd.channel, cmd.a, cmd.b)
      [] cmd.type = "ProgramChange" -> EncodeProgramChange(cmd.channel, cmd.a)
      [] cmd.type = "NoteOn" -> EncodeNoteOn(cmd.channel, cmd.a, cmd.b)
      [] cmd.type = "NoteOff" -> EncodeNoteOff(cmd.channel, cmd.a)
      [] cmd.type = "Start" -> <<StartByte>>
      [] cmd.type = "Stop" -> <<StopByte>>
      [] cmd.type = "Continue" -> <<ContinueByte>>

(* A step in which a conn.send call returned Err. *)
WriteFails == Len(wire') = Len(wire) + 1 /\ ~Last(wire').ok

(* In every step with a failed write: the write was made on the handle in  *)
(* `conn`, which is still there and still open after the step, no port is  *)
(* opened, and the worker goes on, to the next command or the next pulse.  *)
WriteFailsStep ==
    WriteFails =>
       /\ conn # NoConn
       /\ Last(wire').hid = conn.hid
       /\ conn' = conn
       /\ open' = open
       /\ opens' = opens
       /\ current_port' = current_port
       /\ pc' \in {"recv", "burst"}

(* In every state: a write is never made again (a command other than Start *)
(* makes at most one call, a Start at most one 0xFA and six 0xF8), and a   *)
(* data or transport command applied on a handle has written its message   *)
(* to that handle, whatever failed before it.                              *)
WritesGoOn ==
    /\ \A n \in 1..Len(applied) :
          LET w == CallsOf(applied[n].id) IN
          /\ applied[n].cmd.type # "Start" => Len(w) <= 1
          /\ applied[n].cmd.type = "Start" =>
                /\ Len(w) <= 1 + BurstTicks
                /\ \A i \in 2..Len(w) : w[i].bytes = <<ClockByte>>
    /\ \A n \in 1..Len(applied) :
          LET w == CallsOf(applied[n].id)
              h == ExpectedHandle(n - 1)
          IN  (applied[n].cmd.type \in DataTypes \cup TransportTypes /\ h # 0) =>
                /\ applied[n].had = h
                /\ Len(w) >= 1
                /\ w[1].hid = h
                /\ w[1].bytes = Encoded(applied[n].cmd)

(* C11: a write that fails while Connected drops only that write: the      *)
(* state stays Connected with the same handle, nothing is disconnected,    *)
(* reopened or written again, and the commands after it are still encoded  *)
(* and written to that handle.                                             *)
WriteFailureKeepsConnection == [](WritesGoOn) /\ [][WriteFailsStep]_vars

(* A write failed, and a later command was written to the same handle,     *)
(* which `conn` still holds.                                               *)
WriteFailureKeepsConnectionWitness ==
    \E i, j \in 1..Len(wire) :
        /\ i < j
        /\ ~wire[i].ok
        /\ wire[j].ok
        /\ wire[j].id > wire[i].id
        /\ wire[j].hid = wire[i].hid
        /\ conn.hid = wire[i].hid
        /\ open = {conn}

----------------------------------------------------------------------------
(* The loop `for cmd in rx` has ended and the closure has returned. *)
LoopEnded == pc \in {"done", "closed"}

(* The worker has received Quit. *)
QuitDequeued == \E i \in 1..Len(applied) : applied[i].cmd = Quit

(* C12 as stated: the loop ends only by applying Quit, and no other event, *)
(* the producers going away included, ends it.                             *)
LoopEndsOnlyByQuit == LoopEnded => QuitDequeued

(* C12, amended: while the process runs, the loop ends only by applying    *)
(* Quit or by the channel closing, which is when every Sender was dropped  *)
(* and every command sent was applied; no open failure, write failure or   *)
(* offline command ends it: in every state where neither has happened and  *)
(* a command is in the channel, the worker is able to take its next step   *)
(* towards applying it.                                                    *)
LoopEndsByQuitOrHangup ==
    /\ pc = "done" => QuitDequeued /\ Last(applied).cmd = Quit
    /\ pc = "closed" =>
          /\ ~QuitDequeued
          /\ ~senders
          /\ Len(applied) = Len(sent)
          /\ \A i \in 1..Len(sent) : applied[i].id = i
    /\ (pc \notin {"done", "closed", "exited"} /\ queue # <<>>) =>
          /\ ~QuitDequeued
          /\ ENABLED Worker

(* The loop ended by the channel closing, after a write failure and an     *)
(* open failure that did not end it.                                       *)
LoopEndsByQuitOrHangupWitness ==
    /\ pc = "closed"
    /\ Len(applied) = MaxCmds
    /\ \E i \in 1..Len(wire) : ~wire[i].ok
    /\ \E i \in 1..Len(opens) : opens[i].hid = 0

----------------------------------------------------------------------------
(* The session is over: the loop has ended or the process has. *)
SessionEnded == pc \in {"done", "closed", "exited"}

(* The bursts that began: the Start commands whose 0xFA was accepted. *)
BurstsBegun == {wire[i].id : i \in BurstHeads}

(* C13 as stated: Quit never cuts a command short: once the session has    *)
(* ended, every command sent ahead of a Quit has been applied, and every   *)
(* Start burst that began has written its six clock pulses.                *)
QuitNeverCutsShort ==
    (SessionEnded /\ \E q \in 1..Len(sent) : sent[q].cmd = Quit) =>
       /\ \A q \in 1..Len(sent) : \A k \in 1..(q - 1) :
             (sent[q].cmd = Quit /\ \A j \in 1..(q - 1) : sent[j].cmd # Quit) =>
                \E i \in 1..Len(applied) : applied[i].id = k
       /\ \A k \in BurstsBegun : PulsesOf(k) = BurstTicks

----------------------------------------------------------------------------
(* Command number k has been applied in full: a Connect that opened a port *)
(* has put the handle in `conn`, a burst that began has written its six    *)
(* pulses.                                                                 *)
FullyApplied(k) ==
    /\ Completed(k)
    /\ k \in BurstsBegun => PulsesOf(k) = BurstTicks
    /\ OpenedAt(k) # 0 =>
          \/ conn.hid = opens[OpenedAt(k)].hid
          \/ \E i \in 1..Len(applied) : applied[i].id > k

(* In every state: the commands received are the commands sent, each once, *)
(* in order and with none left out; every one but the last received has    *)
(* been applied in full; and when Quit has been received every command     *)
(* sent ahead of it has been received exactly once.                        *)
ReceivedOnce ==
    /\ Len(applied) <= Len(sent)
    /\ \A i \in 1..Len(applied) : applied[i].id = i /\ applied[i].cmd = sent[i].cmd
    /\ \A i \in 1..(Len(applied) - 1) : FullyApplied(applied[i].id)
    /\ \A q \in 1..Len(applied) : \A k \in 1..(q - 1) :
          applied[q].cmd = Quit =>
             Cardinality({i \in 1..Len(applied) : applied[i].id = k}) = 1

(* In every step that receives a command: the worker is at the top of its  *)
(* loop, and the command received before has been applied in full.         *)
ReceivesStep ==
    Receives =>
       /\ pc = "recv"
       /\ burst_i = 0
       /\ newc = NoConn
       /\ Len(applied') = Len(applied) + 1
       /\ Len(queue') < Len(queue)
       /\ applied # <<>> => FullyApplied(Last(applied).id)

(* C14: every command sent ahead of Quit is received and applied exactly   *)
(* once by the loop, never skipped and never applied twice, and each       *)
(* command is applied in full before the next is received.                 *)
AppliedExactlyOnce == [](ReceivedOnce) /\ [][ReceivesStep]_vars

(* Connect, Start with its whole burst, then Quit: each was received once. *)
AppliedExactlyOnceWitness ==
    /\ pc = "done"
    /\ Len(applied) = 3
    /\ applied[1].cmd.type = "Connect" /\ OpenedAt(1) # 0
    /\ applied[2].cmd = Start /\ PulsesOf(2) = BurstTicks
    /\ applied[3].cmd = Quit

----------------------------------------------------------------------------
(* A step in which the worker receives SetBpm(bpm). *)
ReceivesSetBpm == Receives /\ Received.type = "SetBpm"

(* C15 as stated: SetBpm(bpm) with bpm <= 0 is rejected: the tempo keeps   *)
(* its previous value, and a non-positive value is never the worker's      *)
(* tempo.                                                                  *)
NonPositiveTempoRejected ==
    /\ [](current_bpm > 0)
    /\ [][(ReceivesSetBpm /\ Received.a <= 0) => current_bpm' = current_bpm]_vars

----------------------------------------------------------------------------
(* The tempo the commands received so far leave: the bpm of the last       *)
(* SetBpm among the first n, 120 when there is none.                       *)
RECURSIVE TempoAfter(_)
TempoAfter(n) ==
    IF n = 0 THEN DefaultBpm
    ELSE IF applied[n].cmd.type = "SetBpm" THEN applied[n].cmd.a
    ELSE TempoAfter(n - 1)

(* C16: the worker's tempo is 120 at start and in every state the bpm of   *)
(* the SetBpm applied last (120 when none was); a step that applies any    *)
(* other command, or writes a clock pulse, leaves it as it is.             *)
TempoIsLastSetBpm ==
    /\ [](current_bpm = TempoAfter(Len(applied)))
    /\ [][~ReceivesSetBpm => current_bpm' = current_bpm]_vars

(* SetBpm(60) was applied and then a connect and a query, which left the   *)
(* tempo at 60.                                                            *)
TempoIsLastSetBpmWitness ==
    /\ Len(applied) = 3
    /\ applied[1].cmd = SetBpm(60)
    /\ applied[2].cmd.type = "Connect" /\ conn # NoConn
    /\ applied[3].cmd = QueryDevice
    /\ current_bpm = 60

----------------------------------------------------------------------------
(* The messages the worker of version v writes for the n-th command        *)
(* received, given the handle the commands before it left and the result   *)
(* of its first write: the one encoded message when a handle is held, and  *)
(* in gui.rs the six pulses after an accepted 0xFA.                        *)
WritesIn(v, n) ==
    LET c == applied[n].cmd
        w == CallsOf(applied[n].id)
    IN  IF ExpectedHandle(n - 1) = 0 \/ c.type \notin DataTypes \cup TransportTypes
        THEN <<>>
        ELSE IF c.type = "Start" /\ v = "gui_rs" /\ w # <<>> /\ w[1].ok
        THEN [i \in 1..(1 + BurstTicks) |-> <<BurstBytes[i]>>]
        ELSE <<Encoded(c)>>

(* The messages the n-th command received writes, computed from what a run *)
(* shares with every run that differs from it in its SetBpm commands only: *)
(* the command, the handle the Connect and Disconnect commands before it   *)
(* left, and the result of its first write.  No tempo enters.              *)
WritesFor(n) == WritesIn(variant, n)

(* The number of clock pulses written so far. *)
Pulses == Cardinality({i \in 1..Len(wire) : wire[i].bytes = <<ClockByte>>})

(* In every state: the time slept is 8 ms for each clock pulse written,    *)
(* whatever the tempo was, each write comes 8 ms after a clock pulse and   *)
(* at once after any other write, every write is of a command received,    *)
(* in their order, and the writes of each command are what WritesFor       *)
(* gives.                                                                  *)
WireFromCommands ==
    /\ slept = SleepMs * Pulses
    /\ \A i \in 1..Len(wire) :
          /\ i > 1 => wire[i - 1].id <= wire[i].id
          /\ i > 1 => wire[i].t = wire[i - 1].t +
                          (IF wire[i - 1].bytes = <<ClockByte>> THEN SleepMs ELSE 0)
          /\ \E n \in 1..Len(applied) : applied[n].id = wire[i].id
    /\ \A n \in 1..Len(applied) :
          LET w == CallsOf(applied[n].id)
              f == WritesFor(n)
          IN  /\ Len(w) <= Len(f)
              /\ \A i \in 1..Len(w) : w[i].bytes = f[i]
              /\ Completed(applied[n].id) => Len(w) = Len(f)

(* In every step that applies SetBpm: nothing is written and no time is    *)
(* slept.                                                                  *)
SetBpmStep == ReceivesSetBpm => (wire' = wire /\ slept' = slept /\ pc' = "recv")

(* C17: the bytes written do not depend on the tempo: the wire is a        *)
(* function of the commands other than SetBpm and of the results of the    *)
(* open and write calls, so two runs that differ in their SetBpm commands  *)
(* only write the same bytes; and a Start burst is six pulses with 8 ms    *)
(* slept after each, whatever the current bpm.                             *)
WireIgnoresTempo == [](WireFromCommands) /\ [][SetBpmStep]_vars

(* A whole burst was written while the tempo was 60: 0xFA, six 0xF8 and    *)
(* 48 ms slept, as at 120.                                                 *)
WireIgnoresTempoWitness ==
    /\ current_bpm = 60
    /\ Len(applied) = 3
    /\ applied[2].cmd = SetBpm(60)
    /\ applied[3].cmd = Start
    /\ BytesOf(3) = BurstBytes
    /\ slept = SleepMs * BurstTicks
    /\ pc = "recv"

----------------------------------------------------------------------------
(* The bytes the encoding table gives for a command on user channel 1..16: *)
(* the status byte is the type's base with channel - 1 in its low four     *)
(* bits, then the data bytes as they are.                                  *)
TableBytes(cmd) ==
    CASE cmd.type = "SendCC" -> <<176 + (cmd.channel - 1), cmd.a, cmd.b>>
      [] cmd.type = "ProgramChange" -> <<192 + (cmd.channel - 1), cmd.a>>
      [] cmd.type = "NoteOn" -> <<144 + (cmd.channel - 1), cmd.a, cmd.b>>
      [] cmd.type = "NoteOff" -> <<128 + (cmd.channel - 1), cmd.a, 0>>
      [] cmd.type = "Stop" -> <<252>>
      [] cmd.type = "Continue" -> <<251>>

TableTypes == DataTypes \cup {"Stop", "Continue"}

(* C18: for every user channel 1..16 and all data values 0..127 the bytes  *)
(* written are those of the encoding table: a ControlChange, ProgramChange, *)
(* NoteOn, NoteOff, Stop or Continue applied while Connected makes one     *)
(* write, of exactly the table's bytes (Stop and Continue one byte and no  *)
(* burst), and two writes of the same command value have the same bytes.   *)
EncodingTable ==
    /\ \A i \in 1..Len(wire) :
          sent[wire[i].id].cmd.type \in TableTypes =>
             wire[i].bytes = TableBytes(sent[wire[i].id].cmd)
    /\ \A n \in 1..Len(applied) :
          (applied[n].cmd.type \in TableTypes /\ applied[n].had # 0) =>
             Len(CallsOf(applied[n].id)) = 1
    /\ \A i, j \in 1..Len(wire) :
          sent[wire[i].id].cmd = sent[wire[j].id].cmd => wire[i].bytes = wire[j].bytes
    /\ slept = 0

(* A controller change on channel 16 with both data bytes 127 was written  *)
(* twice, as [0xBF, 127, 127] each time.                                   *)
EncodingTableWitness ==
    /\ Len(wire) = 2
    /\ sent[wire[1].id].cmd = SendCC(MaxChannel, MaxData, MaxData)
    /\ wire[1].bytes = <<191, 127, 127>>
    /\ wire[2].bytes = <<191, 127, 127>>
    /\ wire[1].id # wire[2].id

----------------------------------------------------------------------------
(* C19 as stated: every data byte written (every byte after the status     *)
(* byte of a message) is in 0..127, whatever line the command line was     *)
(* given.                                                                  *)
DataBytesSevenBit ==
    \A i \in 1..Len(wire) : \A k \in 2..Len(wire[i].bytes) :
        wire[i].bytes[k] \in 0..MaxData

----------------------------------------------------------------------------
(* C20 as stated: the clock generator waits 60000 / (bpm * 24) ms between  *)
(* two pulses, 20.833 ms at 120 bpm and 41.667 ms at 60 (to the thousandth *)
(* of a millisecond: the sleep between two consecutive pulse writes, in    *)
(* thousandths, is the quotient or the next number above it).              *)
PulseIntervalFromTempo ==
    \A i \in 2..Len(wire) :
        LET gap == 1000 * (wire[i].t - wire[i - 1].t)
            want == (60000 * 1000) \div (cur.cmd.a * 24)
        IN  gap \in want..(want + 1)

----------------------------------------------------------------------------
(* A step in which the worker receives Quit. *)
ReceivesQuit == Receives /\ Received.type = "Quit"

(* C21: applying Quit, Connected or not, ends in the terminal Disconnected *)
(* state: the step that applies it releases the handle `conn` held and     *)
(* ends the loop, and once the loop has ended (by Quit or by the channel   *)
(* closing) the worker holds no handle and no handle is open, for good.    *)
QuitReleasesHandle ==
    /\ [](LoopEnded => (conn = NoConn /\ newc = NoConn /\ open = {}))
    /\ [][ReceivesQuit => (pc' = "done" /\ conn' = NoConn /\ open' = {})]_vars
    /\ [][LoopEnded => (conn' = NoConn /\ open' = {} /\ opens' = opens)]_vars

(* Quit was applied on the second of two connections opened one after the  *)
(* other: the loop has ended and neither handle is open.                   *)
QuitReleasesHandleWitness ==
    /\ pc = "done"
    /\ Len(applied) = 3
    /\ applied[3].cmd = Quit /\ applied[3].had # 0
    /\ Len(opens) = 2 /\ opens[1].hid # 0 /\ opens[2].hid # 0
    /\ applied[3].had = opens[2].hid
    /\ conn = NoConn /\ open = {}

----------------------------------------------------------------------------
(* The commands whose arms assign `conn` or `_current_port`. *)
ConnectionTypes == {"Connect", "Disconnect", "Quit"}

(* The handle and the port index, with the handles that exist and the      *)
(* open_output calls made.                                                 *)
ConnectionState == <<conn, current_port, newc, open, opens>>

(* C22: the connection starts Disconnected and changes only when Connect,  *)
(* Disconnect or Quit is applied: a step that applies a ControlChange,     *)
(* ProgramChange, NoteOn, NoteOff, Start, Stop, Continue, SetBpm or        *)
(* QueryDevice, and every step of a Start burst, leaves the handle and the *)
(* port index as they were, whether its write succeeds or fails.           *)
ConnectionFrame ==
    /\ (conn = NoConn /\ current_port = NoneIdx /\ open = {})
    /\ [][(Receives /\ Received.type \notin ConnectionTypes) =>
             ConnectionState' = ConnectionState]_vars
    /\ [][pc = "burst" => ConnectionState' = ConnectionState]_vars
    /\ [][ConnectionState' # ConnectionState =>
             \/ Receives /\ Received.type \in ConnectionTypes
             \/ pc = "opened" /\ cur.cmd.type = "Connect"]_vars

(* A Start was applied on a connection to port 1 and one write of its      *)
(* burst failed, then a QueryDevice: the handle and the port are those of  *)
(* the Connect.                                                            *)
ConnectionFrameWitness ==
    /\ Len(applied) = 3
    /\ applied[1].cmd = Connect(1, 2) /\ OpenedAt(1) # 0
    /\ applied[2].cmd = Start
    /\ Len(CallsOf(2)) = 1 + BurstTicks
    /\ \E i \in 1..Len(wire) : ~wire[i].ok
    /\ applied[3].cmd = QueryDevice
    /\ conn = Handle(opens[1].hid, 1)
    /\ current_port = 1
    /\ open = {conn}

----------------------------------------------------------------------------
(* The threads that hold a reference to handle h. *)
HoldersOf(h) == {th \in Threads : h \in Holds(th)}

(* In every state: each handle that exists is referenced by one thread and *)
(* no other, and every write to a handle was made by one and the same      *)
(* thread.                                                                 *)
OneHolder ==
    /\ \A h \in open : Cardinality(HoldersOf(h)) = 1
    /\ \A i, j \in 1..Len(wire) : wire[i].by = wire[j].by
    /\ \A i \in 1..Len(wire) : wire[i].by \in Threads

(* In every step: at most one write is made, by the thread that holds the  *)
(* handle written to, and that thread is the handle's only holder.         *)
OneWriteStep ==
    /\ Len(wire') <= Len(wire) + 1
    /\ Len(wire') = Len(wire) + 1 =>
          \E h \in open : /\ h.hid = Last(wire').hid
                          /\ HoldersOf(h) = {Last(wire').by}

----------------------------------------------------------------------------
(* The bursts written in full. *)
BurstsDone == {k \in BurstsBegun : PulsesOf(k) = BurstTicks}

(* In every state: the time the worker has slept is 48 ms for each burst   *)
(* written in full and 8 ms for each pulse of the burst in progress.       *)
SleptInBursts ==
    slept = (BurstTicks * SleepMs) * Cardinality(BurstsDone)
            + (IF pc = "burst" THEN SleepMs * burst_i ELSE 0)

(* In every step: the step that receives a command does not sleep, be it a *)
(* Start, Connected or not; a step that sleeps is a step of the burst of a *)
(* Start received while Connected, which writes one pulse and sleeps 8 ms  *)
(* after it, the sixth pulse included.                                     *)
SleepStep ==
    /\ Receives => slept' = slept
    /\ slept' # slept =>
          /\ pc = "burst"
          /\ cur.cmd = Start
          /\ Last(applied).id = cur.id /\ Last(applied).had # 0
          /\ Len(wire') = Len(wire) + 1
          /\ Last(wire').bytes = <<ClockByte>>
          /\ slept' = slept + SleepMs
    /\ (pc = "burst" /\ wire' # wire) => slept' = slept + SleepMs

(* C24: the worker sleeps only while applying Start in the Connected       *)
(* state: every other command, and Start while Disconnected, completes     *)
(* without sleeping, and a full burst is six sleeps of 8 ms, 48 ms in all, *)
(* one after each pulse, the last included.                                *)
SleepsOnlyInBurst == [](SleptInBursts) /\ [][SleepStep]_vars

(* A Start applied while Disconnected took no time; after the Connect a    *)
(* second Start wrote its burst and took 48 ms.                            *)
SleepsOnlyInBurstWitness ==
    /\ pc = "recv"
    /\ Len(applied) = 3
    /\ applied[1].cmd = Start /\ applied[1].had = 0
    /\ applied[2].cmd.type = "Connect"
    /\ applied[3].cmd = Start /\ applied[3].had # 0
    /\ BurstsDone = {3}
    /\ slept = 48

----------------------------------------------------------------------------
(* send_timing_clock has returned. *)
ClockReturned == pc \in {"clock_ok", "clock_err"}

(* Every write made so far succeeded. *)
AllWritesOk == \A i \in 1..Len(wire) : wire[i].ok

(* In every state of a call send_timing_clock(bpm, ticks): the writes are  *)
(* 0xF8 bytes, at most `ticks` of them, and every write before the last    *)
(* succeeded; one sleep was taken after each write that succeeded; the     *)
(* call returns Ok after exactly `ticks` writes, all of which succeeded,   *)
(* and Err with the failed write as its last; and the call is not part of  *)
(* any command of the worker: none was sent or received.                   *)
ClockResult ==
    /\ \A i \in 1..Len(wire) : wire[i].bytes = <<ClockByte>>
    /\ \A i \in 1..(Len(wire) - 1) : wire[i].ok
    /\ Len(wire) <= cur.cmd.b
    /\ slept = TickSleepMs(cur.cmd.a) * Cardinality({i \in 1..Len(wire) : wire[i].ok})
    /\ pc = "clock" => AllWritesOk
    /\ pc = "clock_ok" => AllWritesOk /\ Len(wire) = cur.cmd.b
    /\ pc = "clock_err" => wire # <<>> /\ ~Last(wire).ok
    /\ variant = "clock" /\ sent = <<>> /\ applied = <<>>

(* C25: send_timing_clock(bpm, ticks) with bpm > 0 terminates; when every  *)
(* write succeeds it has written exactly `ticks` 0xF8 bytes, with one      *)
(* sleep after each; at the first failed write it stops and returns the    *)
(* error, writing no further pulse; and it runs outside every command of   *)
(* the worker, which never calls it.                                       *)
ClockTerminates ==
    /\ <>ClockReturned
    /\ [](ClockResult)
    /\ [][ClockReturned => wire' = wire]_vars

(* send_timing_clock(120, MaxTicks) has returned Ok after MaxTicks pulses  *)
(* and as many sleeps of 20 ms.                                            *)
ClockTerminatesWitness ==
    /\ pc = "clock_ok"
    /\ cur.cmd.a = 120 /\ cur.cmd.b = MaxTicks
    /\ Len(wire) = MaxTicks
    /\ AllWritesOk
    /\ slept = 20 * MaxTicks

----------------------------------------------------------------------------
(* The Start commands the gui.rs worker applied in full while it held a    *)
(* handle, by their numbers.                                               *)
StartsApplied == {applied[i].id : i \in StartsConnected}

(* In every state: a Start applied while Connected whose 0xFA write failed *)
(* made that one write and no other; one whose 0xFA write succeeded made   *)
(* six 0xF8 writes after it, whichever of them failed, the first at once   *)
(* and each of the others 8 ms after the one before; and what is written   *)
(* after the burst is written 8 ms after the sixth pulse or later.         *)
BurstByFirstWrite ==
    \A k \in StartsApplied :
        LET w == CallsOf(k) IN
        /\ Len(w) >= 1
        /\ w[1].bytes = <<StartByte>>
        /\ ~w[1].ok => Len(w) = 1
        /\ w[1].ok =>
              /\ Len(w) = 1 + BurstTicks
              /\ \A n \in 2..Len(w) : w[n].bytes = <<ClockByte>>
              /\ w[2].t = w[1].t
              /\ \A n \in 3..Len(w) : w[n].t = w[n - 1].t + SleepMs
              /\ slept >= w[1].t + BurstTicks * SleepMs
              /\ \A i \in 1..Len(wire) :
                    wire[i].id > k => wire[i].t >= w[1].t + BurstTicks * SleepMs

(* In every step of the gui.rs worker: the step that applies Start sleeps  *)
(* no time, and when its 0xFA write failed the worker is back at the top   *)
(* of its loop; a step of the burst writes one pulse, sleeps 8 ms and      *)
(* goes on to the next pulse, or to the top of the loop after the sixth,   *)
(* whether the write succeeded or failed.                                  *)
BurstStepByResult ==
    /\ (variant = "gui_rs" /\ Receives /\ Received.type = "Start") =>
          /\ slept' = slept
          /\ (wire' # wire /\ ~Last(wire').ok) => (pc' = "recv" /\ burst_i' = 0)
          /\ (wire' # wire /\ Last(wire').ok) => (pc' = "burst" /\ burst_i' = 0)
    /\ (pc = "burst" /\ wire' # wire) =>
          /\ Len(wire') = Len(wire) + 1
          /\ Last(wire').bytes = <<ClockByte>>
          /\ slept' = slept + SleepMs
          /\ burst_i' = (burst_i + 1) % BurstTicks
          /\ pc' = IF burst_i + 1 = BurstTicks THEN "recv" ELSE "burst"

(* C26: in the gui.rs Start burst a failed 0xFA write suppresses the whole *)
(* burst (no pulse is written, no time is slept), and a failed pulse write *)
(* does not stop it: whenever the 0xFA write succeeded, exactly six 0xF8   *)
(* writes are attempted and six sleeps of 8 ms taken, whichever pulse      *)
(* writes fail.                                                            *)
FailedWriteInBurst == [](BurstByFirstWrite) /\ [][BurstStepByResult]_vars

(* The third pulse of a burst failed: the burst went on to its sixth pulse *)
(* and took 48 ms.                                                         *)
FailedWriteInBurstWitness ==
    \E k \in StartsApplied :
        /\ Len(CallsOf(k)) = 1 + BurstTicks
        /\ CallsOf(k)[1].ok
        /\ ~CallsOf(k)[4].ok
        /\ CallsOf(k)[1 + BurstTicks].ok
        /\ slept = BurstTicks * SleepMs
        /\ pc = "recv"

----------------------------------------------------------------------------
(* The lines read so far that make interactive_loop call an encoder of a   *)
(* channel message.                                                        *)
ChannelLines ==
    {i \in 1..Len(lines) : Len(CliMessage(lines[i], current_channel)) > 1}

(* The high four bits of the status bytes of the channel messages. *)
TypeNibbles == {8, 9, 11, 12}

(* C27 as stated: for every 8-bit channel, those outside 1..16 included,   *)
(* encoding succeeds, and the status byte has the type nibble of its       *)
(* command (0xB, 0xC, 0x9, 0x8) and the low nibble (channel - 1) mod 16    *)
(* under 8-bit wraparound: 17 is written as channel 1, 0 as channel 16.    *)
ChannelAliased ==
    /\ pc # "cli_panic"
    /\ \A i \in ChannelLines : \E n \in 1..Len(wire) :
          /\ wire[n].id = i
          /\ wire[n].bytes[1] \div 16 \in TypeNibbles
          /\ wire[n].bytes[1] % 16 = ((current_channel + U8Max) % (U8Max + 1)) % 16
          /\ current_channel = MaxChannel + 1 => wire[n].bytes[1] % 16 = 0
          /\ current_channel = 0 => wire[n].bytes[1] % 16 = MaxChannel - 1

----------------------------------------------------------------------------
(* The channel is drained and the worker is waiting at the top of its      *)
(* loop: every command sent has been applied in full.                      *)
Drained == queue = <<>> /\ pc = "recv"

(* C28 as stated: the window's `connected` flag agrees with the worker:    *)
(* whenever the channel is drained, the worker holds an open handle when   *)
(* the flag is true and none when it is false.                             *)
FlagAgrees == Drained => (connected <=> conn # NoConn)

----------------------------------------------------------------------------
(* The places in `sent` of the Connect and Disconnect commands. *)
Switches == {i \in 1..Len(sent) : sent[i].cmd.type \in {"Connect", "Disconnect"}}

(* A step in which the window sends a command. *)
Sends1 == Len(sent') = Len(sent) + 1

(* In every state: of the Connect and Disconnect commands sent, the first  *)
(* is a Connect and no two in a row are of the same type; the flag is true *)
(* when the last of them is a Connect; the worker was holding no handle    *)
(* when it received any Connect; and no two handles are open.              *)
Alternation ==
    /\ \A i \in Switches :
          (\A j \in Switches : i <= j) => sent[i].cmd.type = "Connect"
    /\ \A i, j \in Switches :
          (i < j /\ \A k \in Switches : ~(i < k /\ k < j)) =>
             sent[i].cmd.type # sent[j].cmd.type
    /\ connected <=> \E i \in Switches :
                        /\ \A j \in Switches : j <= i
                        /\ sent[i].cmd.type = "Connect"
    /\ \A n \in 1..Len(applied) : applied[n].cmd.type = "Connect" => applied[n].had = 0
    /\ \A g, h \in open : g = h

(* In every step that sends a command: a Connect is sent with the flag     *)
(* false and a Disconnect with the flag true.                              *)
SwitchStep ==
    Sends1 =>
       /\ Last(sent').cmd.type = "Connect" => (~connected /\ connected')
       /\ Last(sent').cmd.type = "Disconnect" => (connected /\ ~connected')
       /\ Last(sent').cmd.type \notin {"Connect", "Disconnect"} => connected' = connected

(* C29: the window sends Connect only while its `connected` flag is false  *)
(* and Disconnect only while it is true, so its Connect and Disconnect     *)
(* commands alternate, starting with Connect; with the window the only     *)
(* producer the worker never applies a Connect while it holds a handle and *)
(* never has two handles open at once.                                     *)
ConnectsAlternate == [](Alternation) /\ [][SwitchStep]_vars

(* Connect, Disconnect and Connect again were sent and applied, both       *)
(* Connects opening a port: the one handle open is the second.             *)
ConnectsAlternateWitness ==
    /\ Len(applied) = 3
    /\ applied[1].cmd.type = "Connect"
    /\ applied[2].cmd = Disconnect
    /\ applied[3].cmd.type = "Connect"
    /\ Len(opens) = 2 /\ opens[1].hid # 0 /\ opens[2].hid # 0
    /\ conn.hid = opens[2].hid
    /\ open = {conn}
    /\ connected

----------------------------------------------------------------------------
(* C30: the tempo the window displays converges to the worker's: once the  *)
(* command channel and the device-state channel are both drained, the      *)
(* window having polled them, device_bpm equals the worker's current_bpm,  *)
(* after any sequence of SetBpm, Connect, QueryDevice and other commands;  *)
(* and in every state the tempo the next poll would leave in device_bpm is *)
(* the worker's.                                                           *)
TempoConverges ==
    /\ (Drained /\ state_q = <<>>) => device_bpm = current_bpm
    /\ (pc = "done" /\ state_q = <<>>) => device_bpm = current_bpm
    /\ LastBpm(state_q, device_bpm) = current_bpm

(* SetBpm(60), a Connect that opened a port and a QueryDevice were applied *)
(* and the window has polled: it displays 60.                              *)
TempoConvergesWitness ==
    /\ Drained /\ state_q = <<>>
    /\ Len(applied) = 3
    /\ applied[1].cmd = SetBpm(60)
    /\ applied[2].cmd.type = "Connect" /\ OpenedAt(2) # 0
    /\ applied[3].cmd = QueryDevice
    /\ device_bpm = 60
    /\ current_bpm = 60

----------------------------------------------------------------------------
(* The types of the commands both versions of the worker have an arm for.  *)
SharedTypes == {c.type : c \in SharedCommands}

(* Every command sent so far is one both versions have. *)
OnlySharedSent == \A i \in 1..Len(sent) : sent[i].cmd.type \in SharedTypes

(* The bytes of the conn.send calls of command number k, one message each. *)
MessagesOf(k) == [i \in 1..Len(CallsOf(k)) |-> CallsOf(k)[i].bytes]

(* C31: the worker of gui.rs and the worker inlined in main.rs are         *)
(* wire-equivalent: in a run of either on commands both have (Connect,     *)
(* Disconnect, SendCC, Start, Stop, Continue, Quit), every command applied *)
(* has written what each of the two versions writes for it under the same  *)
(* open and write results, and between commands the handle held is the one *)
(* the received commands and open results give, whichever version runs.    *)
WireEquivalent ==
    OnlySharedSent =>
       /\ \A n \in 1..Len(applied) :
             Completed(applied[n].id) =>
                \A v \in {"gui_rs", "main_rs"} :
                   MessagesOf(applied[n].id) = WritesIn(v, n)
       /\ pc \in {"recv", "done"} =>
             conn.hid = ExpectedHandle(Len(applied))

----------------------------------------------------------------------------
(* The commands of the command line that send a message, with the number   *)
(* of arguments each takes.                                                *)
CliArity(c) == CASE c \in {"cc", "noteon"} -> 2
                 [] c \in {"pc", "noteoff"} -> 1
                 [] c \in {"start", "stop", "continue"} -> 0
                 [] OTHER -> -1

(* A recognised, well-formed line: a sending command, in any case of       *)
(* letters, followed by at least the arguments it takes, each the numeral  *)
(* of a u8.  Every other line is empty, unknown, informational (help,      *)
(* list, exit) or malformed.                                               *)
WellFormed(l) ==
    /\ CliArity(CliCommand(l)) >= 0
    /\ Len(l) > CliArity(CliCommand(l))
    /\ \A k \in 2..(1 + CliArity(CliCommand(l))) : l[k].k = "num" /\ l[k].n \in 0..U8Max

(* In every state: each line read so far has made as many conn.send calls  *)
(* as it should, one with the bytes of its message for a well-formed line  *)
(* and none for any other; and the loop is running or has ended by `exit`  *)
(* or the end of the input.                                                *)
LineWrites ==
    /\ \A i \in 1..Len(lines) :
          IF WellFormed(lines[i])
          THEN /\ Len(CallsOf(i)) = 1
               /\ CallsOf(i)[1].bytes = CliMessage(lines[i], current_channel)
               /\ CallsOf(i)[1].bytes # <<>>
          ELSE CallsOf(i) = <<>>
    /\ Len(wire) <= Len(lines)
    /\ pc \in {"cli", "cli_done"}

(* In every step: the loop ends only on reading `exit` or at the end of    *)
(* the input, in which no line is read; a step in which a write fails      *)
(* leaves the loop running.                                                *)
CliEndStep ==
    /\ (pc = "cli" /\ pc' # "cli") =>
          \/ lines' = lines
          \/ CliCommand(Last(lines')) = "exit"
    /\ (Len(wire') = Len(wire) + 1 /\ ~Last(wire').ok) => pc' = "cli"

(* C32: in the command line's loop each line writes at most one message:   *)
(* a recognised, well-formed command writes exactly its encoded message on *)
(* the configured channel, an empty, unknown or malformed line writes      *)
(* nothing, and the loop ends only on `exit` or at the end of the input,   *)
(* never because a send failed.                                            *)
OneMessagePerLine == [](LineWrites) /\ [][CliEndStep]_vars

====
